---- MODULE Spec2Model ----
(***************************************************************************)
(* Model of the blog application's content model (models.py) and of the    *)
(* request handlers of app.py that create content, register users and      *)
(* answer the JSON endpoints.                                              *)
(*                                                                         *)
(* Text is a sequence of one-character strings, so that the string         *)
(* operations of the code (lower, re.sub, strip, split, rsplit, slicing,   *)
(* f-string formatting) are computed character by character.               *)
(***************************************************************************)
EXTENDS Integers, Sequences, FiniteSets, TLC

VARIABLES
    users,       \* table user: set of rows
    categories,  \* table category: set of rows
    tags,        \* table tag: set of rows
    post_tags,   \* association table post_tags: set of <<post_id, tag_id>>
    posts,       \* table blog_post: sequence of rows, in commit order
    comments,    \* table comment: set of rows
    clock,       \* value datetime.utcnow() returns
    req,         \* per worker thread: the local state of the request it serves
    reg,         \* per worker thread: the local state of its register request
    call         \* one call made on its own: fn, its argument, what it returned

vars == <<users, categories, tags, post_tags, posts, comments, clock, req, reg,
          call>>

(***************************************************************************)
(* Bounds of the model.                                                    *)
(***************************************************************************)
MaxPosts == 3        \* create_post is accepted while fewer rows exist
MaxTitleLen == 3     \* longest title handed to the slug generator alone
MaxOver == 3         \* content lengths tried go up to the limit plus this
MaxHundreds == 10    \* word counts tried go up to 100 times this, plus 1
MaxComments == 2     \* api_add_comment is accepted while fewer rows exist

(***************************************************************************)
(* Characters                                                              *)
(***************************************************************************)
LowerSeq == <<"a","b","c","d","e","f","g","h","i","j","k","l","m",
              "n","o","p","q","r","s","t","u","v","w","x","y","z","é">>
UpperSeq == <<"A","B","C","D","E","F","G","H","I","J","K","L","M",
              "N","O","P","Q","R","S","T","U","V","W","X","Y","Z","É">>
AsciiLower == {LowerSeq[i] : i \in 1..26}
AsciiUpper == {UpperSeq[i] : i \in 1..26}
AsciiDigit == {"0","1","2","3","4","5","6","7","8","9"}
NonAsciiLetter == {"é", "É"}

\* str.isspace: what \s matches and what split() and strip() treat as blank
IsSpace(c) == c \in {" ", "\t", "\n"}

\* \w of a str pattern: Unicode letters and digits, and the underscore
IsWordChar(c) ==
    c \in AsciiLower \cup AsciiUpper \cup AsciiDigit \cup NonAsciiLetter \cup {"_"}

\* str.lower, one character
LowerChar(c) ==
    IF \E i \in 1..Len(UpperSeq) : UpperSeq[i] = c
    THEN LowerSeq[CHOOSE i \in 1..Len(UpperSeq) : UpperSeq[i] = c]
    ELSE c

\* str.lower
Lower(s) == [i \in 1..Len(s) |-> LowerChar(s[i])]

(***************************************************************************)
(* Text helpers                                                            *)
(***************************************************************************)
\* the value None of a text column or attribute
NoneText == <<"None">>

\* truthiness of a text attribute: None and "" are false
Truthy(s) == s # NoneText /\ s # <<>>

\* s * n
Rep(s, n) == [i \in 1..(n * Len(s)) |-> s[((i - 1) % Len(s)) + 1]]

\* s[:n]
Prefix(s, n) == SubSeq(s, 1, IF n < Len(s) THEN n ELSE Len(s))

\* str(n) for n >= 0
RECURSIVE ToStr(_)
ToStr(n) ==
    LET d == <<"0","1","2","3","4","5","6","7","8","9">>[(n % 10) + 1]
    IN  IF n < 10 THEN <<d>> ELSE ToStr(n \div 10) \o <<d>>

\* re.sub(r'[^\w\s-]', '', s)
StripSpecial(s) ==
    SelectSeq(s, LAMBDA c : IsWordChar(c) \/ IsSpace(c) \/ c = "-")

\* re.sub(r'[\s_-]+', '-', s): every maximal run of the class becomes one "-"
RECURSIVE CollapseRuns(_, _)
CollapseRuns(s, inRun) ==
    IF s = <<>> THEN <<>>
    ELSE IF IsSpace(Head(s)) \/ Head(s) \in {"_", "-"}
         THEN (IF inRun THEN <<>> ELSE <<"-">>) \o CollapseRuns(Tail(s), TRUE)
         ELSE <<Head(s)>> \o CollapseRuns(Tail(s), FALSE)

\* s.lstrip(chars) and s.rstrip(chars), chars given as a set
RECURSIVE LStrip(_, _)
LStrip(s, chars) ==
    IF s # <<>> /\ Head(s) \in chars THEN LStrip(Tail(s), chars) ELSE s

RECURSIVE RStrip(_, _)
RStrip(s, chars) ==
    IF s # <<>> /\ s[Len(s)] \in chars
    THEN RStrip(SubSeq(s, 1, Len(s) - 1), chars) ELSE s

\* s.strip(chars)
Strip(s, chars) == RStrip(LStrip(s, chars), chars)

(***************************************************************************)
(* BlogPost.generate_slug                                                  *)
(***************************************************************************)
\* the three lines that derive base_slug from the title
base_slug(title) == Strip(CollapseRuns(StripSpecial(Lower(title)), FALSE), {"-"})

\* BlogPost.query.filter_by(slug=s).first() is not None
slug_exists(s) == \E i \in 1..Len(posts) : posts[i].slug = s

\* suffixed_slug with the counter already advanced: the first suffix is -2
suffixed_slug_skips(base, counter) == base \o <<"-">> \o ToStr(counter + 1)

\* suffixed_slug with a counter that never advances: every suffix is -1
suffixed_slug_stuck(base, counter) == base \o <<"-">> \o ToStr(1)

\* f"{base_slug}-{counter}"
suffixed_slug(base, counter) == base \o <<"-">> \o ToStr(counter)


(***************************************************************************)
(* BlogPost.generate_excerpt and BlogPost.calculate_read_time              *)
(***************************************************************************)
ExcerptLength == 150     \* generate_excerpt(self, length=150)
WordsPerMinute == 200    \* word_count // 200

\* s.rsplit(' ', 1)[0]: s up to its last space, the whole of s without one
rsplit_head(s) ==
    LET at == {i \in 1..Len(s) : s[i] = " "}
    IN  IF at = {} THEN s
        ELSE SubSeq(s, 1, (CHOOSE i \in at : \A j \in at : j <= i) - 1)

\* generate_excerpt with < for <=: content of exactly the limit is truncated
generate_excerpt_lt(content) ==
    IF Len(content) < ExcerptLength
    THEN content
    ELSE rsplit_head(Prefix(content, ExcerptLength)) \o <<".", ".", ".">>

generate_excerpt(content) ==
    IF Len(content) <= ExcerptLength
    THEN content
    ELSE rsplit_head(Prefix(content, ExcerptLength)) \o <<".", ".", ".">>

\* len(content.split()): split() without a separator yields the maximal runs
\* of non-blank characters, one per position where such a run starts
word_count(content) ==
    Cardinality({i \in 1..Len(content) :
        ~IsSpace(content[i]) /\ (i = 1 \/ IsSpace(content[i - 1]))})

\* read_minutes without the floor of one minute
read_minutes_nofloor(content) == word_count(content) \div WordsPerMinute

\* max(1, word_count // 200)
read_minutes(content) ==
    LET m == word_count(content) \div WordsPerMinute
    IN  IF m > 1 THEN m ELSE 1

\* f"{minutes} min read"
calculate_read_time(content) ==
    ToStr(read_minutes(content)) \o <<" ","m","i","n"," ","r","e","a","d">>


(***************************************************************************)
(* Category.generate_slug, split and the sample data of                    *)
(* create_sample_data_if_needed                                            *)
(***************************************************************************)
\* Category.generate_slug: the same three lines, without a uniqueness loop
category_slug(name) == Strip(CollapseRuns(StripSpecial(Lower(name)), FALSE), {"-"})

\* s.split(sep) for a one-character separator
RECURSIVE split_on(_, _)
split_on(s, sep) ==
    IF \A i \in 1..Len(s) : s[i] # sep THEN <<s>>
    ELSE LET i == CHOOSE k \in 1..Len(s) :
                      s[k] = sep /\ \A j \in 1..(k - 1) : s[j] # sep
         IN  <<SubSeq(s, 1, i - 1)>> \o split_on(SubSeq(s, i + 1, Len(s)), sep)

\* [tag.strip() for tag in data.split(',')]
tag_names_of(data) ==
    LET parts == split_on(data, ",")
    IN  [i \in 1..Len(parts) |-> Strip(parts[i], {" ", "\t", "\n"})]

SampleCategoryNames == <<
    <<"T","u","t","o","r","i","a","l">>,
    <<"F","r","a","m","e","w","o","r","k">>,
    <<"J","a","v","a","S","c","r","i","p","t">>,
    <<"C","S","S">>,
    <<"A","c","c","e","s","s","i","b","i","l","i","t","y">> >>

SampleTagNames == <<
    <<"H","T","M","L">>,
    <<"C","S","S">>,
    <<"J","a","v","a","S","c","r","i","p","t">>,
    <<"B","o","o","t","s","t","r","a","p">>,
    <<"E","S","6">>,
    <<"R","e","s","p","o","n","s","i","v","e">>,
    <<"F","e","a","t","u","r","e","s">>,
    <<"G","r","i","d">>,
    <<"F","l","e","x","b","o","x">>,
    <<"A","1","1","y">>,
    <<"A","R","I","A">> >>

SampleCategories ==
    {[id |-> i, name |-> SampleCategoryNames[i],
      slug |-> category_slug(SampleCategoryNames[i])] :
        i \in 1..Len(SampleCategoryNames)}

SampleTags ==
    {[id |-> i, name |-> SampleTagNames[i]] : i \in 1..Len(SampleTagNames)}

SampleUsers ==
    {[id |-> 1, username |-> <<"a","d","m","i","n">>,
      email |-> <<"a","d","m","i","n","@","e","x","a","m","p","l","e",".","c","o","m">>]}


(***************************************************************************)
(* Forms submitted to create_post                                          *)
(***************************************************************************)
HelloWorld == <<"H","e","l","l","o"," ","W","o","r","l","d">>
HelloWorld1 == <<"H","e","l","l","o"," ","W","o","r","l","d"," ","1">>
OnlyPunctuation == <<"!","!","!","!","!">>
TooShortTitle == <<"H","i">>

\* 17 words, 67 characters: at most ExcerptLength
ShortContent == RStrip(Rep(<<"a","b","c"," ">>, 17), {" "})
\* 40 words, 160 characters: longer than ExcerptLength
LongContent == Rep(<<"a","b","c"," ">>, 40)

Forms == {
    [title |-> HelloWorld, content |-> ShortContent, excerpt |-> <<>>,
     category |-> 1, tags |-> <<>>, featured |-> FALSE],
    [title |-> HelloWorld1, content |-> LongContent, excerpt |-> <<>>,
     category |-> 2, tags |-> <<"C","S","S",","," ","f","l","a","s","k">>, featured |-> TRUE],
    [title |-> OnlyPunctuation, content |-> ShortContent, excerpt |-> <<"I","n","t","r","o">>,
     category |-> 1, tags |-> <<"f","l","a","s","k">>, featured |-> FALSE],
    [title |-> TooShortTitle, content |-> ShortContent, excerpt |-> <<>>,
     category |-> 0, tags |-> <<>>, featured |-> FALSE] }

\* BlogPostForm.validate_on_submit: the validators of forms.py
form_valid(f) ==
    /\ Strip(f.title, {" ", "\t", "\n"}) # <<>>        \* DataRequired
    /\ Len(f.title) >= 5 /\ Len(f.title) <= 200        \* Length(min=5, max=200)
    /\ Len(f.excerpt) <= 500                           \* Optional, Length(max=500)
    /\ Strip(f.content, {" ", "\t", "\n"}) # <<>>      \* DataRequired
    /\ Len(f.content) >= 50                            \* Length(min=50)
    /\ f.category # 0                                  \* DataRequired
    /\ \E c \in categories : c.id = f.category         \* a choice of the select
    /\ Len(f.tags) <= 200                              \* Optional, Length(max=200)

(***************************************************************************)
(* Request state                                                           *)
(***************************************************************************)
Workers == {"w1", "w2"}     \* app.run(threaded=True)

NoneTime == 0               \* the value None of a DateTime attribute

NoForm == [title |-> <<>>, content |-> <<>>, excerpt |-> <<>>,
           category |-> 0, tags |-> <<>>, featured |-> FALSE]

IdleReq == [
    pc |-> "idle",          \* idle, slug_loop, tags, done, error, invalid
    form |-> NoForm,        \* the submitted form
    user |-> 0,             \* current_user.id
    base_slug |-> NoneText,     \* locals of generate_slug
    unique_slug |-> NoneText,
    counter |-> 0,
    checks |-> 0,           \* (history) slug queries issued by generate_slug
    excerpt |-> NoneText,   \* attributes of the BlogPost under construction
    read_time |-> NoneText,
    published |-> "None",
    date_published |-> NoneTime,
    names |-> <<>>,         \* tag names still to handle
    new_tags |-> <<>>,      \* Tag objects added to the session
    post_tag_names |-> <<>>,    \* post.tags
    seen |-> 0,             \* (history) rows of blog_post when the request began
    post_id |-> 0 ]         \* post.id after the commit

IdleReg == [
    pc |-> "idle",          \* idle, unique_username, unique_email, check_email,
                            \* commit, done, invalid, flash, error
    username |-> <<>>,      \* form.username.data
    email |-> <<>>,         \* form.email.data
    errors |-> {},          \* fields whose validators raised ValidationError
    held |-> FALSE ]        \* (history) a User held the username or the email
                            \* when the request began


(***************************************************************************)
(* create_post, in the steps at which it reads or writes the database      *)
(***************************************************************************)
\* the largest counter generate_slug is followed to
MaxCounter == MaxPosts + 2

\* BlogPost.__init__ after the slug: excerpt, read_time and date_published of
\* the new object. published is the keyword argument, "None" when not passed.
init_excerpt(excerpt, content) ==
    IF ~Truthy(excerpt) /\ Truthy(content) THEN generate_excerpt(content) ELSE excerpt

init_read_time(read_time, content) ==
    IF ~Truthy(read_time) /\ Truthy(content)
    THEN calculate_read_time(content) ELSE read_time

init_date_published(published, date_published, now) ==
    IF published = "True" /\ date_published = NoneTime THEN now ELSE date_published

\* the keyword arguments create_post passes for the attributes it leaves out
create_post_published == "None"

\* the row the INSERT writes for the object of request r: column defaults
\* fill the attributes that are still None
post_row(r) ==
    [id |-> Len(posts) + 1,
     title |-> req[r].form.title,
     content |-> req[r].form.content,
     excerpt |-> req[r].excerpt,
     slug |-> req[r].unique_slug,
     published |-> IF req[r].published = "None" THEN TRUE
                   ELSE req[r].published = "True",
     featured |-> req[r].form.featured,
     allow_comments |-> TRUE,
     read_time |-> IF req[r].read_time = NoneText
                   THEN <<"5"," ","m","i","n"," ","r","e","a","d">>
                   ELSE req[r].read_time,
     view_count |-> 0,
     date_created |-> clock,
     date_published |-> req[r].date_published,
     author_id |-> req[r].user,
     category_id |-> req[r].form.category]

\* blog_post.slug without its unique constraint
slug_unique_violation_off(s) == FALSE

\* unique=True on blog_post.slug: the INSERT of slug s is refused
slug_unique_violation(s) == s # NoneText /\ slug_exists(s)

\* unique=True on tag.name: the INSERT of a Tag named n is refused
tag_unique_violation(n) == \E t \in tags : t.name = n

\* Tag.query.filter_by(name=n).first(), seen from the session of request r
tag_found(r, n) ==
    \/ \E t \in tags : t.name = n
    \/ \E i \in 1..Len(req[r].new_tags) : req[r].new_tags[i] = n

\* the handler up to the first slug query: validation, then BlogPost(...)
\* enters generate_slug
Submit(r, f) ==
    /\ req[r].pc \in {"idle", "done", "error", "invalid"}
    /\ Len(posts) < MaxPosts
    /\ \E u \in users :
         req' = [req EXCEPT ![r] =
            IF form_valid(f)
            THEN [IdleReq EXCEPT
                    !.pc = "slug_loop", !.form = f, !.user = u.id,
                    !.base_slug = base_slug(f.title),
                    !.unique_slug = base_slug(f.title),
                    !.counter = 1,
                    !.published = create_post_published,
                    !.seen = Len(posts)]
            ELSE [IdleReq EXCEPT !.pc = "invalid"]]
    /\ UNCHANGED <<users, categories, tags, post_tags, posts, comments, clock,
                   reg, call>>

\* one evaluation of the while condition of generate_slug: either the loop
\* body, or the return and the rest of BlogPost.__init__
SlugLoop(r) ==
    /\ req[r].pc = "slug_loop"
    /\ LET q == req[r]
       IN  IF slug_exists(q.unique_slug)
           THEN /\ q.counter < MaxCounter
                /\ req' = [req EXCEPT ![r] = [q EXCEPT
                        !.unique_slug = suffixed_slug(q.base_slug, q.counter),
                        !.counter = q.counter + 1,
                        !.checks = q.checks + 1]]
           ELSE req' = [req EXCEPT ![r] = [q EXCEPT
                        !.pc = "tags",
                        !.checks = q.checks + 1,
                        !.excerpt = init_excerpt(q.form.excerpt, q.form.content),
                        !.read_time = init_read_time(NoneText, q.form.content),
                        !.date_published =
                            init_date_published(q.published, NoneTime, clock),
                        !.names = IF q.form.tags # <<>>
                                  THEN tag_names_of(q.form.tags) ELSE <<>>]]
    /\ UNCHANGED <<users, categories, tags, post_tags, posts, comments, clock,
                   reg, call>>

\* one turn of the loop over tag_names
TagStep(r) ==
    /\ req[r].pc = "tags"
    /\ req[r].names # <<>>
    /\ LET q == req[r]
           n == Head(q.names)
       IN  req' = [req EXCEPT ![r] = [q EXCEPT
                    !.names = Tail(q.names),
                    !.new_tags = IF tag_found(r, n) THEN q.new_tags
                                 ELSE Append(q.new_tags, n),
                    !.post_tag_names = Append(q.post_tag_names, n)]]
    /\ UNCHANGED <<users, categories, tags, post_tags, posts, comments, clock,
                   reg, call>>

\* an INSERT that also derives the excerpt of every stored row again
posts_after_insert_rederived(row) ==
    Append([i \in 1..Len(posts) |->
                [posts[i] EXCEPT !.excerpt = generate_excerpt(posts[i].content)]],
           row)

\* db.session.add(post) and the INSERT of its row at the commit: blog_post
\* gets one more row and the rows it holds stay as they are
posts_after_insert(row) == Append(posts, row)

\* the ids the new Tag rows of request r get
new_tag_rows(r) ==
    {[id |-> Cardinality(tags) + i, name |-> req[r].new_tags[i]] :
        i \in 1..Len(req[r].new_tags)}

\* post_tags without its primary key
post_tags_pk_off(names) == FALSE

\* the composite primary key of post_tags: post.tags holds one Tag twice
\* when a name comes twice in names, and the second INSERT of the pair
\* (post, tag) is refused
post_tags_pk_violation(names) ==
    \E i, j \in 1..Len(names) : i # j /\ names[i] = names[j]

\* the session is not rolled back: the Tag rows it has flushed stay
kept_without_rollback(r) == new_tag_rows(r)

\* db.session.rollback() in the 500 handler: the Tag rows of the session of
\* request r that stay in the table
kept_after_rollback(r) == {}

\* db.session.add(post); db.session.commit(): every row is written or, on an
\* IntegrityError, none is and the request ends in the 500 handler
Commit(r) ==
    /\ req[r].pc = "tags"
    /\ req[r].names = <<>>
    /\ IF \/ slug_unique_violation(req[r].unique_slug)
          \/ \E i \in 1..Len(req[r].new_tags) :
                tag_unique_violation(req[r].new_tags[i])
          \/ post_tags_pk_violation(req[r].post_tag_names)
       THEN /\ req' = [req EXCEPT ![r].pc = "error"]
            /\ tags' = tags \cup kept_after_rollback(r)
            /\ UNCHANGED <<post_tags, posts, clock>>
       ELSE /\ posts' = posts_after_insert(post_row(r))
            /\ tags' = tags \cup new_tag_rows(r)
            /\ post_tags' = post_tags \cup
                 {<<Len(posts) + 1, t.id>> : t \in
                    {t \in tags \cup new_tag_rows(r) :
                        \E i \in 1..Len(req[r].post_tag_names) :
                            req[r].post_tag_names[i] = t.name}}
            /\ clock' = clock + 1
            /\ req' = [req EXCEPT ![r].pc = "done",
                                  ![r].post_id = Len(posts) + 1]
    /\ UNCHANGED <<users, categories, comments, reg, call>>

\* tag lists sent to create_post: a stored name and a new one, a new name
\* twice, a new name alone, and a stored name twice
TagLists == { <<"C","S","S",","," ","f","l","a","s","k">>,
              <<"f","l","a","s","k",",","f","l","a","s","k">>,
              <<"f","l","a","s","k">>,
              <<"C","S","S",","," ","C","S","S">> }

TagForms ==
    {[title |-> HelloWorld, content |-> ShortContent, excerpt |-> <<>>,
      category |-> 1, tags |-> l, featured |-> FALSE] : l \in TagLists}

NoCall == [fn |-> "none", arg |-> <<>>, ret |-> NoneText, words |-> 0]

\* the database after create_app(), no request in progress
InitDb ==
    /\ users = SampleUsers
    /\ categories = SampleCategories
    /\ tags = SampleTags
    /\ post_tags = {}
    /\ posts = <<>>
    /\ comments = {}
    /\ clock = 1
    /\ req = [r \in Workers |-> IdleReq]
    /\ reg = [r \in Workers |-> IdleReg]

Init == InitDb /\ call = NoCall

Next ==
    \/ \E r \in Workers, f \in Forms : Submit(r, f)
    \/ \E r \in Workers : SlugLoop(r)
    \/ \E r \in Workers : TagStep(r)
    \/ \E r \in Workers : Commit(r)

Spec == Init /\ [][Next]_vars

\* create_post, concurrently, with the tag lists of TagForms
NextTags ==
    \/ \E r \in Workers, f \in TagForms : Submit(r, f)
    \/ \E r \in Workers : SlugLoop(r)
    \/ \E r \in Workers : TagStep(r)
    \/ \E r \in Workers : Commit(r)

SpecTags == Init /\ [][NextTags]_vars


(***************************************************************************)
(* The generators called on their own: one call per behaviour, the         *)
(* argument drawn by the initial state                                     *)
(***************************************************************************)
\* generate_slug run to its return with no other request in between
RECURSIVE slug_loop(_, _, _)
slug_loop(base, unique, counter) ==
    IF slug_exists(unique) /\ counter < MaxCounter
    THEN slug_loop(base, suffixed_slug(base, counter), counter + 1)
    ELSE unique

generate_slug(title) == slug_loop(base_slug(title), base_slug(title), 1)

\* one character of each class the two patterns and lower() tell apart
TitleChars == {"a", "B", "7", "_", "-", " ", "\t", "!", "é", "É"}

RECURSIVE TextsUpTo(_, _)
TextsUpTo(chars, n) ==
    IF n = 0 THEN {<<>>}
    ELSE LET shorter == TextsUpTo(chars, n - 1)
         IN  shorter \cup {Append(t, c) : t \in shorter, c \in chars}

SlugTitles == TextsUpTo(TitleChars, MaxTitleLen)

CallGenerateSlug ==
    /\ call.fn = "generate_slug"
    /\ call.ret = NoneText
    /\ call' = [call EXCEPT !.ret = generate_slug(call.arg)]
    /\ UNCHANGED <<users, categories, tags, post_tags, posts, comments, clock,
                   req, reg>>

InitSlug ==
    /\ InitDb
    /\ \E t \in SlugTitles :
         call = [fn |-> "generate_slug", arg |-> t, ret |-> NoneText, words |-> 0]

SpecSlug == InitSlug /\ [][CallGenerateSlug]_vars

\* contents of every length around the limit: letters, with up to two
\* blanks placed at the start, in the middle and around the limit
ExcerptLens == (0..2) \cup ((ExcerptLength - 2)..(ExcerptLength + MaxOver))
BlankAt == {0, 1, 2, 75, ExcerptLength - 1, ExcerptLength, ExcerptLength + 1}
Blanks == {" ", "\t", "\n"}

ExcerptContent(len, p1, b1, p2, b2) ==
    [i \in 1..len |-> IF i = p1 THEN b1 ELSE IF i = p2 THEN b2 ELSE "a"]

ExcerptContents ==
    {ExcerptContent(len, p1, b1, p2, b2) :
        len \in ExcerptLens, p1 \in BlankAt, p2 \in BlankAt,
        b1 \in Blanks, b2 \in Blanks}

CallGenerateExcerpt ==
    /\ call.fn = "generate_excerpt"
    /\ call.ret = NoneText
    /\ call' = [call EXCEPT !.ret = generate_excerpt(call.arg)]
    /\ UNCHANGED <<users, categories, tags, post_tags, posts, comments, clock,
                   req, reg>>

InitExcerpt ==
    /\ InitDb
    /\ \E c \in ExcerptContents :
         call = [fn |-> "generate_excerpt", arg |-> c, ret |-> NoneText,
                 words |-> 0]

SpecExcerpt == InitExcerpt /\ [][CallGenerateExcerpt]_vars

\* contents of a given number of words: the word "ab" n times, each followed
\* by a separator, after an optional leading blank
WordCounts ==
    {h * 100 + d : h \in 0..MaxHundreds, d \in {-1, 0, 1}} \cap Nat
Separators == {<<" ">>, <<"\t">>, <<"\n", " ">>}

ReadTimeContent(n, sep, lead, trail) ==
    LET body == Rep(<<"a", "b">> \o sep, n)
    IN  lead \o (IF trail THEN body ELSE RStrip(body, {" ", "\t", "\n"}))

CallCalculateReadTime ==
    /\ call.fn = "calculate_read_time"
    /\ call.ret = NoneText
    /\ call' = [call EXCEPT !.ret = calculate_read_time(call.arg)]
    /\ UNCHANGED <<users, categories, tags, post_tags, posts, comments, clock,
                   req, reg>>

InitReadTime ==
    /\ InitDb
    /\ \E n \in WordCounts, sep \in Separators, lead \in {<<>>, <<" ">>},
          trail \in BOOLEAN :
         call = [fn |-> "calculate_read_time",
                 arg |-> ReadTimeContent(n, sep, lead, trail),
                 ret |-> NoneText, words |-> n]

SpecReadTime == InitReadTime /\ [][CallCalculateReadTime]_vars


(***************************************************************************)
(* Objects built and committed on their own, as seed_posts.py does:        *)
(* BlogPost(...) or Category(...), db.session.add,                         *)
(* db.session.commit, with no other request in between                     *)
(***************************************************************************)
\* default='5 min read' of blog_post.read_time
read_time_default == <<"5"," ","m","i","n"," ","r","e","a","d">>

Intro == <<"I","n","t","r","o">>
EightMinRead == <<"8"," ","m","i","n"," ","r","e","a","d">>
MySlug == <<"m","y","-","s","l","u","g">>

\* keyword arguments of BlogPost(...); NoneText and "None" stand for an
\* argument that is not passed
NoKwargs == [title |-> HelloWorld, content |-> <<>>, excerpt |-> NoneText,
             slug |-> NoneText, read_time |-> NoneText, published |-> "None",
             featured |-> FALSE, allow_comments |-> "None", author_id |-> 1,
             category_id |-> 1]

PostKwargs == {
    NoKwargs,
    [NoKwargs EXCEPT !.content = ShortContent],
    [NoKwargs EXCEPT !.content = LongContent, !.excerpt = <<>>,
                     !.published = "False"],
    [NoKwargs EXCEPT !.content = LongContent, !.excerpt = Intro,
                     !.read_time = EightMinRead, !.slug = MySlug,
                     !.published = "True"],
    [NoKwargs EXCEPT !.excerpt = Intro, !.read_time = EightMinRead] }

\* BlogPost.__init__: the attributes of the new object
blogpost_init(kw) ==
    [kw EXCEPT
        !.slug = IF Truthy(kw.title) /\ ~Truthy(kw.slug)
                 THEN generate_slug(kw.title) ELSE kw.slug,
        !.excerpt = init_excerpt(kw.excerpt, kw.content),
        !.read_time = init_read_time(kw.read_time, kw.content)] @@
    [date_published |-> init_date_published(kw.published, NoneTime, clock)]

\* the row the INSERT writes for object o: column defaults fill the
\* attributes that are still None
insert_row(o, id) ==
    [id |-> id,
     title |-> o.title,
     content |-> o.content,
     excerpt |-> o.excerpt,
     slug |-> o.slug,
     published |-> IF o.published = "None" THEN TRUE ELSE o.published = "True",
     featured |-> o.featured,
     allow_comments |-> IF o.allow_comments = "None" THEN TRUE
                        ELSE o.allow_comments = "True",
     read_time |-> IF o.read_time = NoneText THEN read_time_default
                   ELSE o.read_time,
     view_count |-> 0,
     date_created |-> clock,
     date_published |-> o.date_published,
     author_id |-> o.author_id,
     category_id |-> o.category_id]

\* nullable=False on blog_post.title and blog_post.content
post_not_null_violation(o) == o.title = NoneText \/ o.content = NoneText

\* post = BlogPost(...) with the keyword arguments kw; db.session.add(post);
\* db.session.commit()
NewPost(kw) ==
    /\ Len(posts) < MaxPosts
    /\ LET o == blogpost_init(kw)
       IN  IF slug_unique_violation(o.slug) \/ post_not_null_violation(o)
           THEN /\ call' = [fn |-> "BlogPost", arg |-> kw, ret |-> 0,
                            words |-> 0]
                /\ UNCHANGED <<posts, clock>>
           ELSE /\ posts' = posts_after_insert(insert_row(o, Len(posts) + 1))
                /\ clock' = clock + 1
                /\ call' = [fn |-> "BlogPost", arg |-> kw,
                            ret |-> Len(posts) + 1, words |-> 0]
    /\ UNCHANGED <<users, categories, tags, post_tags, comments, req, reg>>

\* names a Category is created with
CategoryNames == { <<"C">>, <<"C","+","+">>, <<"C","S","S"," ","3">> }

\* Category.__init__: the slug of the new object, None when no name is given
category_init_slug(name, slug) ==
    IF Truthy(name) /\ ~Truthy(slug) THEN category_slug(name) ELSE slug

\* unique=True on category.name and category.slug: the INSERT is refused
category_unique_violation(name, slug) ==
    \E c \in categories : c.name = name \/ (slug # NoneText /\ c.slug = slug)

\* one turn of the loop of seed_posts.py over category names, and the commit:
\* the Category is looked up by name and created when there is none
NewCategory(name) ==
    /\ IF \E c \in categories : c.name = name
       THEN /\ call' = [fn |-> "Category", arg |-> name, words |-> 0,
                        ret |-> (CHOOSE c \in categories : c.name = name).id]
            /\ UNCHANGED categories
       ELSE LET slug == category_init_slug(name, NoneText)
            IN  IF category_unique_violation(name, slug)
                THEN /\ call' = [fn |-> "Category", arg |-> name, ret |-> 0,
                                 words |-> 0]
                     /\ UNCHANGED categories
                ELSE /\ categories' = categories \cup
                            {[id |-> Cardinality(categories) + 1,
                              name |-> name, slug |-> slug]}
                     /\ call' = [fn |-> "Category", arg |-> name, words |-> 0,
                                 ret |-> Cardinality(categories) + 1]
    /\ UNCHANGED <<users, tags, post_tags, posts, comments, clock, req, reg>>

NextConstruct ==
    \/ \E kw \in PostKwargs : NewPost(kw)
    \/ \E name \in CategoryNames : NewCategory(name)

SpecConstruct == Init /\ [][NextConstruct]_vars


(***************************************************************************)
(* register, in the steps at which it reads or writes the database         *)
(***************************************************************************)
AdminName == <<"a","d","m","i","n">>
AdminEmail == <<"a","d","m","i","n","@","e","x","a","m","p","l","e",".","c","o","m">>

\* what a visitor types into the register form
Usernames == { AdminName, <<"a","l","i","c","e">>, <<"c","a","r","o","l">>,
               <<"b","o","b">> }
Emails == { AdminEmail, <<"a","@","x",".","i","o">>, <<"c","@","x",".","i","o">> }

\* the validators of RegisterForm.username that read no table: DataRequired,
\* Length(min=4, max=20), Regexp('^[A-Za-z][A-Za-z0-9_.]*$')
username_format_ok(name) ==
    /\ Len(name) >= 4 /\ Len(name) <= 20
    /\ name[1] \in AsciiLower \cup AsciiUpper
    /\ \A i \in 2..Len(name) :
         name[i] \in AsciiLower \cup AsciiUpper \cup AsciiDigit \cup {"_", "."}

\* User.query.filter_by(username=name).first() finds nothing
username_taken_off(name) == FALSE

\* User.query.filter_by(username=name).first()
username_taken(name) == \E u \in users : u.username = name

\* User.query.filter_by(email=email).first()
email_taken(email) == \E u \in users : u.email = email

\* user.username and user.email without their unique constraints
user_unique_violation_off(name, email) == FALSE

\* unique=True on user.username and user.email: the INSERT is refused
user_unique_violation(name, email) ==
    \E u \in users : u.username = name \/ u.email = email

\* a POST of the form by a visitor who is not logged in: validate_on_submit
\* up to the first query
RegSubmit(r, name, email) ==
    /\ reg[r].pc \in {"idle", "done", "invalid", "flash", "error"}
    /\ reg' = [reg EXCEPT ![r] =
            [pc |-> IF name = <<>> THEN "unique_email" ELSE "unique_username",
             username |-> name,
             email |-> email,
             errors |-> IF username_format_ok(name) THEN {} ELSE {"username"},
             held |-> \E u \in users : u.username = name \/ u.email = email]]
    /\ UNCHANGED <<users, categories, tags, post_tags, posts, comments, clock,
                   req, call>>

\* the validator unique_username
RegUniqueUsername(r) ==
    /\ reg[r].pc = "unique_username"
    /\ reg' = [reg EXCEPT ![r].pc = "unique_email",
                          ![r].errors = IF username_taken(reg[r].username)
                                        THEN reg[r].errors \cup {"username"}
                                        ELSE reg[r].errors]
    /\ UNCHANGED <<users, categories, tags, post_tags, posts, comments, clock,
                   req, call>>

\* the validator unique_email, then the outcome of validate_on_submit: with
\* an error the form is rendered again
RegUniqueEmail(r) ==
    /\ reg[r].pc = "unique_email"
    /\ LET errors == IF email_taken(reg[r].email)
                     THEN reg[r].errors \cup {"email"} ELSE reg[r].errors
       IN  reg' = [reg EXCEPT ![r].errors = errors,
                              ![r].pc = IF errors = {} THEN "check_email"
                                        ELSE "invalid"]
    /\ UNCHANGED <<users, categories, tags, post_tags, posts, comments, clock,
                   req, call>>

\* the query of the handler itself: 'Email already registered.' is flashed
\* and the form rendered again
RegCheckEmail(r) ==
    /\ reg[r].pc = "check_email"
    /\ reg' = [reg EXCEPT ![r].pc = IF email_taken(reg[r].email)
                                    THEN "flash" ELSE "commit"]
    /\ UNCHANGED <<users, categories, tags, post_tags, posts, comments, clock,
                   req, call>>

\* db.session.add(user); db.session.commit(): the row is written or, on an
\* IntegrityError, the request ends in the 500 handler
RegCommit(r) ==
    /\ reg[r].pc = "commit"
    /\ IF user_unique_violation(reg[r].username, reg[r].email)
       THEN /\ reg' = [reg EXCEPT ![r].pc = "error"]
            /\ UNCHANGED users
       ELSE /\ users' = users \cup {[id |-> Cardinality(users) + 1,
                                     username |-> reg[r].username,
                                     email |-> reg[r].email]}
            /\ reg' = [reg EXCEPT ![r].pc = "done"]
    /\ UNCHANGED <<categories, tags, post_tags, posts, comments, clock, req,
                   call>>

NextRegister ==
    \/ \E r \in Workers, name \in Usernames, email \in Emails :
            RegSubmit(r, name, email)
    \/ \E r \in Workers : RegUniqueUsername(r)
    \/ \E r \in Workers : RegUniqueEmail(r)
    \/ \E r \in Workers : RegCheckEmail(r)
    \/ \E r \in Workers : RegCommit(r)

SpecRegister == Init /\ [][NextRegister]_vars


(***************************************************************************)
(* create_post run from its first line to its last with no other request   *)
(* in between, and the two JSON endpoints that read the posts              *)
(***************************************************************************)
\* the keyword arguments create_post passes to BlogPost(...)
create_post_kwargs(f, uid) ==
    [title |-> f.title, content |-> f.content, excerpt |-> f.excerpt,
     slug |-> NoneText, read_time |-> NoneText,
     published |-> create_post_published, featured |-> f.featured,
     allow_comments |-> "None", author_id |-> uid, category_id |-> f.category]

\* the loop over tag_names: the names a new Tag is made for, in order
RECURSIVE new_tag_names(_, _)
new_tag_names(names, made) ==
    IF names = <<>> THEN made
    ELSE IF \/ \E t \in tags : t.name = Head(names)
            \/ \E i \in 1..Len(made) : made[i] = Head(names)
         THEN new_tag_names(Tail(names), made)
         ELSE new_tag_names(Tail(names), Append(made, Head(names)))

\* the posts are created first and read afterwards: the endpoints write
\* nothing, so one read per behaviour shows every answer they can give
CreatePost(f) ==
    /\ call = NoCall
    /\ Len(posts) < MaxPosts
    /\ form_valid(f)
    /\ \E u \in users :
        LET o == blogpost_init(create_post_kwargs(f, u.id))
            names == IF f.tags # <<>> THEN tag_names_of(f.tags) ELSE <<>>
            made == new_tag_names(names, <<>>)
            rows == {[id |-> Cardinality(tags) + i, name |-> made[i]] :
                        i \in 1..Len(made)}
        IN  /\ ~slug_unique_violation(o.slug)
            /\ ~post_tags_pk_violation(names)
            /\ posts' = posts_after_insert(insert_row(o, Len(posts) + 1))
            /\ tags' = tags \cup rows
            /\ post_tags' = post_tags \cup
                 {<<Len(posts) + 1, t.id>> : t \in
                    {t \in tags \cup rows :
                        \E i \in 1..Len(names) : names[i] = t.name}}
            /\ clock' = clock + 1
    /\ UNCHANGED <<users, categories, comments, req, reg, call>>

\* the database of SQLALCHEMY_DATABASE_URI: SQLite by default, PostgreSQL
\* with a postgres:// DATABASE_URL
Dialects == {"sqlite", "postgresql"}

\* how LIKE compares one character: SQLite folds the case of ASCII letters,
\* PostgreSQL compares as is
like_fold(c, dialect) ==
    IF dialect = "sqlite" /\ c \in AsciiUpper THEN LowerChar(c) ELSE c

\* s[j..] LIKE p[i..]: % stands for any text, _ for any one character
RECURSIVE like(_, _, _, _, _)
like(p, i, s, j, dialect) ==
    IF i > Len(p) THEN j > Len(s)
    ELSE IF p[i] = "%"
         THEN \E k \in j..Len(s) + 1 : like(p, i + 1, s, k, dialect)
         ELSE /\ j <= Len(s)
              /\ p[i] = "_" \/ like_fold(p[i], dialect) = like_fold(s[j], dialect)
              /\ like(p, i + 1, s, j + 1, dialect)

\* column.contains(other): column LIKE '%' || other || '%', false for NULL
contains(column, other, dialect) ==
    /\ column # NoneText
    /\ like(<<"%">> \o other \o <<"%">>, 1, column, 1, dialect)

\* title.contains(term) | content.contains(term) | excerpt.contains(term)
search_filter(p, term, dialect) ==
    \/ contains(p.title, term, dialect)
    \/ contains(p.content, term, dialect)
    \/ contains(p.excerpt, term, dialect)

\* join(BlogPost.tags).filter(Tag.name == name)
tag_filter(p, name) ==
    \E t \in tags : t.name = name /\ <<p.id, t.id>> \in post_tags

\* the rows of blog_post
post_rows == {posts[i] : i \in 1..Len(posts)}

\* if category_id: with category_id a set, empty when the parameter is
\* missing and else holding the integer that was passed
category_filter_on(category_id) == \E c \in category_id : c # 0

\* the query api_get_posts builds from its parameters
filtered_posts(a) ==
    {p \in post_rows :
        /\ category_filter_on(a.category_id) => p.category_id \in a.category_id
        /\ Truthy(a.tag) => tag_filter(p, a.tag)
        /\ Truthy(a.search) => search_filter(p, a.search, a.dialect)}

\* order_by(BlogPost.date_created) without .desc()
RECURSIVE order_by_date_created_asc(_)
order_by_date_created_asc(rows) ==
    IF rows = {} THEN <<>>
    ELSE LET first == CHOOSE p \in rows :
                        \A q \in rows : p.date_created <= q.date_created
         IN  <<first>> \o order_by_date_created_asc(rows \ {first})

\* order_by(BlogPost.date_created.desc())
RECURSIVE order_by_date_created_desc(_)
order_by_date_created_desc(rows) ==
    IF rows = {} THEN <<>>
    ELSE LET first == CHOOSE p \in rows :
                        \A q \in rows : p.date_created >= q.date_created
         IN  <<first>> \o order_by_date_created_desc(rows \ {first})

Min(a, b) == IF a < b THEN a ELSE b

\* OFFSET page * per_page, a page too far
page_items_zero_indexed(ordered, page, per_page) ==
    SubSeq(ordered, page * per_page + 1,
           Min((page + 1) * per_page, Len(ordered)))

\* limit(per_page).offset((page - 1) * per_page)
page_items(ordered, page, per_page) ==
    SubSeq(ordered, (page - 1) * per_page + 1,
           Min(page * per_page, Len(ordered)))

\* query.paginate(page, per_page, error_out=False) for page >= 1 and
\* per_page >= 1: the Pagination object
paginate(ordered, page, per_page) ==
    LET total == Len(ordered)
        pages == (total + per_page - 1) \div per_page
    IN  [items |-> page_items(ordered, page, per_page),
         total |-> total,
         pages |-> pages,
         page |-> page,
         has_next |-> page < pages,
         has_prev |-> page > 1]

\* post.author.username and post.category.name can be read
renders(p) ==
    /\ \E u \in users : u.id = p.author_id
    /\ \E c \in categories : c.id = p.category_id

\* parameters of GET /api/posts
CategoryIdParams == {{}, {0}, {2}}
TagParams == {NoneText, <<"f","l","a","s","k">>}
SearchParams == {<<>>, <<"h","e","l","l","o">>, <<"x","y","z","1","2","3">>,
                 <<"o","_","w">>}
PageParams == 1..3
PerPageParams == {1, 2}

\* api_get_posts; a.tag is NoneText when the parameter is missing
ApiGetPosts(a) ==
    /\ call = NoCall
    /\ LET pg == paginate(order_by_date_created_desc(filtered_posts(a)),
                          a.page, a.per_page)
           ok == \A i \in 1..Len(pg.items) : renders(pg.items[i])
       IN  call' = [fn |-> "api_get_posts", arg |-> a, words |-> 0,
                    ret |-> [status |-> IF ok THEN 200 ELSE 500,
                             posts |-> IF ok
                                THEN [i \in 1..Len(pg.items) |-> pg.items[i].id]
                                ELSE <<>>,
                             total |-> pg.total,
                             pages |-> pg.pages,
                             current_page |-> pg.page,
                             has_next |-> pg.has_next,
                             has_prev |-> pg.has_prev]]
    /\ UNCHANGED <<users, categories, tags, post_tags, posts, comments, clock,
                   req, reg>>

\* limit(10) of api_search
SearchLimit == 10

\* the JSON body of POST /api/search: the value of its key search, NoneText
\* when the body has no such key
SearchBodies == {NoneText, <<>>, <<"a","b">>, <<" ","a","b"," ">>,
                 <<" "," "," ">>, <<"a","b","c">>, <<" ","I","n","t","r","o">>,
                 <<"h","e","l","l","o">>, <<"x","y","z","1","2","3">>,
                 <<"o","_","w">>}

\* data.get('search', '').strip()
search_term(data) ==
    Strip(IF data = NoneText THEN <<>> ELSE data, {" ", "\t", "\n"})

\* the test with 2 in the place of 3
search_too_short_2(term) == ~Truthy(term) \/ Len(term) < 2

\* if not search_term or len(search_term) < 3:
search_too_short(term) == ~Truthy(term) \/ Len(term) < 3

\* api_search; post_queries counts the queries on blog_post it has issued
ApiSearch(data, dialect) ==
    /\ call = NoCall
    /\ LET term == search_term(data)
           arg == [search |-> data, dialect |-> dialect]
           found == {p \in post_rows : search_filter(p, term, dialect)}
       IN  IF search_too_short(term)
           THEN call' = [fn |-> "api_search", arg |-> arg, words |-> 0,
                         ret |-> [status |-> 200, results |-> {},
                                  post_queries |-> 0]]
           ELSE \E rows \in SUBSET found :
                  /\ Cardinality(rows) = Min(SearchLimit, Cardinality(found))
                  /\ LET ok == \A p \in rows :
                                    p.excerpt # NoneText /\ renders(p)
                     IN  call' = [fn |-> "api_search", arg |-> arg,
                                  words |-> 0,
                                  ret |-> [status |-> IF ok THEN 200 ELSE 500,
                                           results |-> IF ok
                                                THEN {p.id : p \in rows}
                                                ELSE {},
                                           post_queries |-> 1]]
    /\ UNCHANGED <<users, categories, tags, post_tags, posts, comments, clock,
                   req, reg>>

NextList ==
    \/ \E f \in Forms : CreatePost(f)
    \/ \E category_id \in CategoryIdParams, tag \in TagParams,
          search \in SearchParams, page \in PageParams,
          per_page \in PerPageParams, dialect \in Dialects :
            ApiGetPosts([category_id |-> category_id, tag |-> tag,
                         search |-> search, page |-> page,
                         per_page |-> per_page, dialect |-> dialect])
    \/ \E data \in SearchBodies, dialect \in Dialects : ApiSearch(data, dialect)

SpecList == Init /\ [][NextList]_vars


(***************************************************************************)
(* Users, Posts and Comments created by requests served one at a time,     *)
(* then deleted through the session: db.session.delete(object) and         *)
(* db.session.commit(), with the cascades the relationships declare        *)
(***************************************************************************)
\* register run from its first line to its last with no other request in
\* between
Register(name, email) ==
    /\ call = NoCall
    /\ username_format_ok(name)
    /\ ~username_taken(name) /\ ~email_taken(email)
    /\ ~user_unique_violation(name, email)
    /\ users' = users \cup {[id |-> Cardinality(users) + 1,
                             username |-> name, email |-> email]}
    /\ UNCHANGED <<categories, tags, post_tags, posts, comments, clock, req,
                   reg, call>>

\* BlogPost.query.get_or_404(post_id): the status of the answer
get_or_404(post_id) ==
    IF \E p \in post_rows : p.id = post_id THEN 200 ELSE 404

NoneId == 0                 \* the value None of an Integer foreign key

\* api_add_comment by the logged-in user u: the comment is stored when its
\* content, stripped, is not empty and the post exists
AddComment(u, post_id, content) ==
    /\ call = NoCall
    /\ Cardinality(comments) < MaxComments
    /\ Strip(content, {" ", "\t", "\n"}) # <<>>
    /\ get_or_404(post_id) = 200
    /\ comments' = comments \cup
            {[id |-> Cardinality(comments) + 1,
              content |-> Strip(content, {" ", "\t", "\n"}),
              author_id |-> u.id,
              post_id |-> post_id,
              parent_id |-> NoneId,
              approved |-> TRUE]}
    /\ UNCHANGED <<users, categories, tags, post_tags, posts, clock, req, reg,
                   call>>

\* post_detail: the status of the page
PostDetail(post_id) ==
    /\ call' = [fn |-> "post_detail", arg |-> post_id, words |-> 0,
                ret |-> [status |-> get_or_404(post_id)]]
    /\ UNCHANGED <<users, categories, tags, post_tags, posts, comments, clock,
                   req, reg>>

\* User.posts, cascade='all, delete-orphan': the Posts deleted with user id
user_posts_cascade(user_id) == {p \in post_rows : p.author_id = user_id}

\* User.comments, cascade='all, delete-orphan': the Comments deleted with
\* user id
user_comments_cascade(user_id) == {c \in comments : c.author_id = user_id}

\* BlogPost.comments declared without a cascade
post_comments_cascade_none(post_ids) == {}

\* BlogPost.comments, cascade='all, delete-orphan': the Comments deleted with
\* the Posts post_ids
post_comments_cascade(post_ids) == {c \in comments : c.post_id \in post_ids}

\* the tables once the Posts gone_posts and the Comments gone_comments are
\* deleted: the rows of post_tags of a deleted Post go with it, and a reply
\* to a deleted Comment that stays (Comment.replies has no cascade) loses
\* its parent
delete_rows(gone_posts, gone_comments) ==
    [posts |-> SelectSeq(posts, LAMBDA p : p \notin gone_posts),
     post_tags |-> {pt \in post_tags : \A p \in gone_posts : pt[1] # p.id},
     comments |-> {IF \E g \in gone_comments : g.id = c.parent_id
                   THEN [c EXCEPT !.parent_id = NoneId] ELSE c :
                        c \in comments \ gone_comments}]

\* db.session.delete(u); db.session.commit()
DeleteUser(u) ==
    /\ u \in users
    /\ LET gone_posts == user_posts_cascade(u.id)
           gone_comments == user_comments_cascade(u.id) \cup
                post_comments_cascade({p.id : p \in gone_posts})
           left == delete_rows(gone_posts, gone_comments)
       IN  /\ users' = users \ {u}
           /\ posts' = left.posts
           /\ post_tags' = left.post_tags
           /\ comments' = left.comments
           /\ call' = [fn |-> "delete_user", arg |-> u.id, words |-> 0,
                       ret |-> [posts |-> {p.id : p \in gone_posts},
                                comments |-> gone_comments]]
    /\ UNCHANGED <<categories, tags, clock, req, reg>>

\* db.session.delete(p); db.session.commit()
DeletePost(p) ==
    /\ p \in post_rows
    /\ LET gone_comments == post_comments_cascade({p.id})
           left == delete_rows({p}, gone_comments)
       IN  /\ posts' = left.posts
           /\ post_tags' = left.post_tags
           /\ comments' = left.comments
           /\ call' = [fn |-> "delete_post", arg |-> p.id, words |-> 0,
                       ret |-> [posts |-> {p.id},
                                comments |-> gone_comments]]
    /\ UNCHANGED <<users, categories, tags, clock, req, reg>>

\* the visitor who registers, the form the Posts are made from and the
\* comment that is written
Alice == [username |-> <<"a","l","i","c","e">>,
          email |-> <<"a","@","x",".","i","o">>]
PostForm == CHOOSE f \in Forms : f.title = HelloWorld
Nice == <<"N","i","c","e">>

NextDelete ==
    \/ Register(Alice.username, Alice.email)
    \/ CreatePost(PostForm)
    \/ \E u \in users, post_id \in 1..MaxPosts : AddComment(u, post_id, Nice)
    \/ \E post_id \in 1..MaxPosts : PostDetail(post_id)
    \/ \E u \in users : DeleteUser(u)
    \/ \E p \in post_rows : DeletePost(p)

SpecDelete == Init /\ [][NextDelete]_vars


(***************************************************************************)
(* Posts created by create_post and Categories deleted through the         *)
(* session, db.session.delete(category) and db.session.commit(), with      *)
(* requests served one at a time                                           *)
(***************************************************************************)
\* Category.posts is declared without a cascade: on the delete of Category
\* c the session sets category_id of its Posts to None
category_posts_nullified(c) ==
    [i \in 1..Len(posts) |->
        IF posts[i].category_id = c.id
        THEN [posts[i] EXCEPT !.category_id = NoneId] ELSE posts[i]]

\* blog_post.category_id accepts None
category_id_nullable(rows) == FALSE

\* nullable=False on blog_post.category_id: the UPDATE of rows is refused
category_id_not_null_violation(rows) ==
    \E i \in 1..Len(rows) : rows[i].category_id = NoneId

\* db.session.delete(c); db.session.commit(): an IntegrityError ends the
\* request in the 500 handler, which rolls the session back
DeleteCategory(c) ==
    /\ call = NoCall
    /\ c \in categories
    /\ LET rows == category_posts_nullified(c)
       IN  IF category_id_not_null_violation(rows)
           THEN /\ call' = [fn |-> "delete_category", arg |-> c.id,
                            words |-> 0, ret |-> [status |-> 500]]
                /\ UNCHANGED <<categories, posts>>
           ELSE /\ categories' = categories \ {c}
                /\ posts' = rows
                /\ UNCHANGED call
    /\ UNCHANGED <<users, tags, post_tags, comments, clock, req, reg>>

\* the category field of the submitted form: the placeholder choice 0, three
\* Categories of the select and an id that is no Category
CategoryChoices == {0, 1, 2, 3, 99}

CategoryForms == {[PostForm EXCEPT !.category = c] : c \in CategoryChoices}

NextCategory ==
    \/ \E f \in CategoryForms : CreatePost(f)
    \/ \E c \in categories : DeleteCategory(c)

SpecCategory == Init /\ [][NextCategory]_vars


(***************************************************************************)
(* Comments: api_add_comment with the answer it gives, on Posts built as   *)
(* seed_posts.py builds them, and Comment(...) objects added to the        *)
(* session and committed on their own                                      *)
(***************************************************************************)
\* the characters str.strip() removes
Whitespace == {" ", "\t", "\n"}

\* the row of a new Comment; approved takes its column default
comment_row(content, author_id, post_id, parent_id) ==
    [id |-> Cardinality(comments) + 1,
     content |-> content,
     author_id |-> author_id,
     post_id |-> post_id,
     parent_id |-> parent_id,
     approved |-> TRUE]

\* the check of the content skipped
content_missing_off(content) == FALSE

\* if not content
content_missing(content) == content = <<>>

\* api_add_comment by the logged-in user u with the JSON body data
ApiAddComment(u, data) ==
    /\ LET content == Strip(data.content, Whitespace)
       IN  IF content_missing(content)
           THEN /\ call' = [fn |-> "api_add_comment", arg |-> data,
                            words |-> 0, ret |-> [status |-> 400, id |-> 0]]
                /\ UNCHANGED comments
           ELSE IF get_or_404(data.post_id) = 404
           THEN /\ call' = [fn |-> "api_add_comment", arg |-> data,
                            words |-> 0, ret |-> [status |-> 404, id |-> 0]]
                /\ UNCHANGED comments
           ELSE /\ Cardinality(comments) < MaxComments
                /\ comments' = comments \cup
                        {comment_row(content, u.id, data.post_id, NoneId)}
                /\ call' = [fn |-> "api_add_comment", arg |-> data,
                            words |-> 0,
                            ret |-> [status |-> 200,
                                     id |-> Cardinality(comments) + 1]]
    /\ UNCHANGED <<users, categories, tags, post_tags, posts, clock, req, reg>>

\* comment = Comment(content, author_id, post_id, parent_id);
\* db.session.add(comment); db.session.commit(), with the ids of rows that
\* are stored
NewComment(content, author_id, post_id, parent_id) ==
    /\ Cardinality(comments) < MaxComments
    /\ \E u \in users : u.id = author_id
    /\ \E p \in post_rows : p.id = post_id
    /\ parent_id = NoneId \/ \E c \in comments : c.id = parent_id
    /\ comments' = comments \cup
            {comment_row(content, author_id, post_id, parent_id)}
    /\ call' = [fn |-> "Comment", arg |-> parent_id, words |-> 0,
                ret |-> Cardinality(comments) + 1]
    /\ UNCHANGED <<users, categories, tags, post_tags, posts, clock, req, reg>>

\* the Posts commented on: allow_comments not passed, and passed as False
CommentPostKwargs ==
    {[NoKwargs EXCEPT !.content = ShortContent],
     [NoKwargs EXCEPT !.content = ShortContent, !.allow_comments = "False"]}

\* JSON bodies sent to /api/comment: a stored Post or none, and a content
\* that is empty, blank, or text between blanks
Blank == <<" ", " ">>
PaddedNice == <<" ">> \o Nice \o <<" ">>
MissingPost == MaxPosts + 1         \* an id no stored Post has
CommentBodies ==
    {[post_id |-> i, content |-> c] :
        i \in {1, 2, MissingPost}, c \in {<<>>, Blank, PaddedNice}}

NextComment ==
    \/ \E kw \in CommentPostKwargs : NewPost(kw)
    \/ \E u \in users, data \in CommentBodies : ApiAddComment(u, data)
    \/ \E u \in users, post_id \in 1..2, parent_id \in 0..MaxComments :
            NewComment(Nice, u.id, post_id, parent_id)

SpecComment == Init /\ [][NextComment]_vars


(***************************************************************************)
(* Every route that reads or writes the database, with requests served one *)
(* at a time: the writes first, then one read                              *)
(***************************************************************************)
\* GET /api/posts with no filter, and the body of a search for 'hello'
FirstPage == [category_id |-> {}, tag |-> NoneText, search |-> <<>>,
              page |-> 1, per_page |-> 2, dialect |-> "sqlite"]
HelloSearch == <<"h","e","l","l","o">>

\* the forms posted: one with no excerpt and one with an excerpt of its own
RouteForms == {f \in Forms : f.title \in {HelloWorld, OnlyPunctuation}}

NextRoutes ==
    \/ \E f \in RouteForms : CreatePost(f)
    \/ Register(Alice.username, Alice.email)
    \/ \E u \in users, post_id \in 1..2 : AddComment(u, post_id, Nice)
    \/ \E post_id \in 1..2 : PostDetail(post_id)
    \/ ApiGetPosts(FirstPage)
    \/ \E dialect \in Dialects : ApiSearch(HelloSearch, dialect)

SpecRoutes == Init /\ [][NextRoutes]_vars


(***************************************************************************)
(* Properties                                                              *)
(***************************************************************************)
HelloWorldSlug == <<"h","e","l","l","o","-","w","o","r","l","d">>

\* the slugs of the first n rows of blog_post
SlugsOf(n) == {posts[i].slug : i \in 1..n}

\* the candidates generate_slug tries for a base: base, base-1, base-2, ...
Candidate(base, k) == IF k = 0 THEN base ELSE base \o <<"-">> \o ToStr(k)

\* how many candidates of base are slugs of rows of blog_post
TakenCandidates(base) ==
    Cardinality({k \in 0..MaxCounter :
        Candidate(base, k) \in SlugsOf(Len(posts))})

\* s is what the specification of the generator asks for, given the slugs taken
IsFirstFree(s, base, taken) ==
    /\ s \notin taken
    /\ IF base \notin taken THEN s = base
       ELSE \E k \in 1..(Cardinality(taken) + 1) :
              /\ s = Candidate(base, k)
              /\ \A j \in 1..(k - 1) : Candidate(base, j) \in taken

Finished(r) == req[r].pc \in {"done", "error"}

\* C1: two create_post requests for the title "Hello World" that run
\* concurrently on an empty blog_post table (neither creating a Tag) both end
\* successfully, and their Posts carry the slugs hello-world and hello-world-1.
C1_ConcurrentHelloWorld ==
    \A r1, r2 \in Workers :
        ( /\ r1 # r2
          /\ Finished(r1) /\ Finished(r2)
          /\ req[r1].form.title = HelloWorld /\ req[r2].form.title = HelloWorld
          /\ req[r1].seen = 0 /\ req[r2].seen = 0
          /\ req[r1].new_tags = <<>> /\ req[r2].new_tags = <<>> )
        => /\ req[r1].pc = "done" /\ req[r2].pc = "done"
           /\ {posts[req[r1].post_id].slug, posts[req[r2].post_id].slug}
                = {HelloWorldSlug, HelloWorldSlug \o <<"-", "1">>}

\* C2: no two rows of blog_post have the same slug.
C2_SlugsUnique ==
    \A i, j \in 1..Len(posts) : i # j => posts[i].slug # posts[j].slug

\* two Posts of the same title are stored, and a request that raced for the
\* same slug was refused at its commit
C2_Witness ==
    /\ \E i, j \in 1..Len(posts) : i # j /\ posts[i].title = posts[j].title
    /\ \E r \in Workers : req[r].pc = "error" /\ slug_exists(req[r].unique_slug)

\* request r created its Post right after a Post of the same title, and ran
\* wholly after that Post was committed
SecondOfPair(r) ==
    /\ req[r].pc = "done"
    /\ req[r].seen >= 1
    /\ req[r].post_id = req[r].seen + 1
    /\ posts[req[r].seen].title = req[r].form.title

\* C3 as stated: of two Posts created one after the other with the same
\* title, the slugs differ and the second is "<base>-1".
C3_SecondIsBaseDash1 ==
    \A r \in Workers : SecondOfPair(r) =>
        /\ posts[req[r].post_id].slug # posts[req[r].seen].slug
        /\ posts[req[r].post_id].slug
             = base_slug(req[r].form.title) \o <<"-", "1">>

\* C3 amended: of two Posts created one after the other with the same title,
\* the slugs differ and the second is "<base>-k" for the smallest k >= 1 that
\* no earlier Post has; when no Post before the pair has the slug <base> or
\* "<base>-1", the first is <base> and the second is "<base>-1".
C3_SecondIsFirstFreeSuffix ==
    \A r \in Workers : SecondOfPair(r) =>
        LET base == base_slug(req[r].form.title)
            first == posts[req[r].seen].slug
            second == posts[req[r].post_id].slug
            before == SlugsOf(req[r].seen - 1)
        IN  /\ second # first
            /\ base \in SlugsOf(req[r].seen)
            /\ IsFirstFree(second, base, SlugsOf(req[r].seen))
            /\ (base \notin before /\ Candidate(base, 1) \notin before)
                 => first = base /\ second = base \o <<"-", "1">>

\* a pair created after a Post that already holds "<base>-1": the second of
\* the pair gets "<base>-2"
C3_Witness ==
    \E r \in Workers :
        /\ SecondOfPair(r)
        /\ req[r].seen >= 2
        /\ posts[req[r].post_id].slug = Candidate(base_slug(req[r].form.title), 2)

\* C4: the slug generated against an empty blog_post table has only the
\* characters a-z, 0-9 and "-", and neither starts nor ends with "-".
C4_SlugCharset ==
    (call.fn = "generate_slug" /\ call.ret # NoneText) =>
        /\ \A i \in 1..Len(call.ret) :
              call.ret[i] \in AsciiLower \cup AsciiDigit \cup {"-"}
        /\ call.ret # <<>> =>
              call.ret[1] # "-" /\ call.ret[Len(call.ret)] # "-"

\* C5: when generate_slug returns, its result is the base if no Post has it,
\* otherwise "<base>-k" for the smallest k >= 1 no Post has, and it is the
\* slug of no Post.
C5_ReturnsFirstFree ==
    [][ \A r \in Workers :
          (req[r].pc = "slug_loop" /\ req'[r].pc = "tags") =>
             IsFirstFree(req'[r].unique_slug, base_slug(req[r].form.title),
                         SlugsOf(Len(posts))) ]_vars

\* generate_slug has returned "<base>-2"
C5_Witness ==
    \E r \in Workers :
        /\ req[r].pc = "tags"
        /\ req[r].unique_slug = Candidate(base_slug(req[r].form.title), 2)

\* C6 as stated: a generate_slug that has returned issued at most N queries,
\* N the number of its candidates that are taken.
C6_AtMostNChecks ==
    \A r \in Workers :
        req[r].pc \in {"tags", "done", "error"} =>
            req[r].checks <= TakenCandidates(req[r].base_slug)

\* C6 amended: generate_slug terminates on a finite blog_post table: every
\* query but the last advances the counter, it has issued at most N queries
\* while it loops and at most N + 1 when it has returned, N the number of its
\* candidates that are taken (N is at most the number of rows).
C6_AtMostNPlus1Checks ==
    \A r \in Workers :
        /\ req[r].pc = "slug_loop" =>
             /\ req[r].checks <= TakenCandidates(req[r].base_slug)
             /\ req[r].counter = req[r].checks + 1
        /\ req[r].pc \in {"tags", "done", "error"} =>
             req[r].checks <= TakenCandidates(req[r].base_slug) + 1
        /\ TakenCandidates(req[r].base_slug) <= Len(posts)

\* generate_slug has returned after three queries, two candidates being taken
C6_Witness ==
    \E r \in Workers :
        /\ req[r].pc = "tags"
        /\ req[r].checks = 3
        /\ TakenCandidates(req[r].base_slug) = 2

\* the position in the content at which the excerpt stops
CutAt == Len(call.ret) - 3

\* C7: for content longer than 150 characters the text before the ellipsis
\* is a prefix of the content that does not stop inside a word.
C7_NeverCutsWord ==
    (call.fn = "generate_excerpt" /\ call.ret # NoneText
        /\ Len(call.arg) > ExcerptLength) =>
        /\ CutAt >= 0
        /\ SubSeq(call.ret, 1, CutAt) = SubSeq(call.arg, 1, CutAt)
        /\ ~ ( /\ CutAt >= 1
               /\ ~IsSpace(call.arg[CutAt])
               /\ ~IsSpace(call.arg[CutAt + 1]) )

\* C8: generate_excerpt returns content of at most 150 characters unchanged,
\* the empty content too; for longer content the result has at most 153
\* characters and ends with "...".
C8_ExcerptLength ==
    (call.fn = "generate_excerpt" /\ call.ret # NoneText) =>
        IF Len(call.arg) <= 150
        THEN call.ret = call.arg
        ELSE /\ Len(call.ret) <= 150 + 3
             /\ Len(call.ret) >= 3
             /\ SubSeq(call.ret, Len(call.ret) - 2, Len(call.ret))
                  = <<".", ".", ".">>

\* content of 151 characters without a space gives an excerpt of 153
C8_Witness ==
    /\ call.fn = "generate_excerpt"
    /\ call.ret # NoneText
    /\ Len(call.arg) = 151
    /\ Len(call.ret) = 153

\* C9: calculate_read_time returns "<m> min read" with m = max(1, w div 200)
\* for content of w words: "1 min read" up to 199 words, "2 min read" for
\* 400 words and "5 min read" for 1000 words.
C9_ReadTime ==
    (call.fn = "calculate_read_time" /\ call.ret # NoneText) =>
        LET w == call.words
            m == IF w \div 200 > 1 THEN w \div 200 ELSE 1
        IN  /\ call.ret = ToStr(m) \o <<" ","m","i","n"," ","r","e","a","d">>
            /\ w <= 199 => call.ret = <<"1">> \o <<" ","m","i","n"," ","r","e","a","d">>
            /\ w = 400 => call.ret = <<"2">> \o <<" ","m","i","n"," ","r","e","a","d">>
            /\ w = 1000 => call.ret = <<"5">> \o <<" ","m","i","n"," ","r","e","a","d">>

\* content of 1000 words got "5 min read"
C9_Witness ==
    /\ call.fn = "calculate_read_time"
    /\ call.words = 1000
    /\ call.ret = <<"5">> \o <<" ","m","i","n"," ","r","e","a","d">>

\* C10: every row of blog_post stored as published has a publication
\* timestamp.
C10_PublishedHasDate ==
    \A i \in 1..Len(posts) :
        posts[i].published => posts[i].date_published # NoneTime

\* C11: a Post created without an excerpt or a read time has the excerpt and
\* the read time the generators give for its content, whatever the content,
\* the empty one included; a non-empty excerpt, read time or slug that was
\* passed is stored as passed.
C11_DerivedAtConstruction ==
    (call.fn = "BlogPost" /\ call.ret # 0) =>
        LET kw == call.arg
            row == posts[call.ret]
        IN  /\ row.excerpt = IF Truthy(kw.excerpt) THEN kw.excerpt
                             ELSE generate_excerpt(kw.content)
            /\ row.read_time = IF Truthy(kw.read_time) THEN kw.read_time
                               ELSE calculate_read_time(kw.content)
            /\ Truthy(kw.slug) => row.slug = kw.slug

\* C12: a Category created with a name no other Category has, and no slug,
\* is stored, with a slug no other Category has.
C12_DistinctCategorySlugs ==
    call.fn = "Category" =>
        \E c \in categories :
            /\ c.name = call.arg
            /\ \A d \in categories : d.name # c.name => d.slug # c.slug

\* C13: in every reachable state, also with two register requests in
\* progress at once for the same username or email, no two Users have the
\* same username and no two have the same email.
C13_UsersUnique ==
    \A u1, u2 \in users :
        u1 # u2 => u1.username # u2.username /\ u1.email # u2.email

\* two requests passed the validators with the same username, one was
\* committed and the other refused
C13_Witness ==
    \E r1, r2 \in Workers :
        /\ r1 # r2
        /\ reg[r1].pc = "done" /\ reg[r2].pc = "error"
        /\ reg[r1].username = reg[r2].username
        /\ reg[r1].email # reg[r2].email
        /\ Cardinality(users) > 1

\* C14: a register request whose username or email a User already holds
\* when it is submitted ends with the form rendered again with the error,
\* and no step of it changes the set of Users.
C14_DuplicateRegistration ==
    [][\A r \in Workers :
        (reg'[r] # reg[r] /\ reg'[r].held) =>
            /\ users' = users
            /\ reg'[r].pc \in {"unique_username", "unique_email", "invalid",
                               "flash"}]_vars

\* a request for a username that is held, with an email that is not, has
\* ended
C14_Witness ==
    \E r \in Workers :
        /\ reg[r].held /\ reg[r].pc = "invalid"
        /\ reg[r].username = AdminName /\ reg[r].email # AdminEmail
        /\ reg[r].errors = {"username"}

\* term occurs in text, letters compared without regard to case
occurs_in(term, text) ==
    /\ text # NoneText
    /\ \E i \in 0..(Len(text) - Len(term)) :
         \A k \in 1..Len(term) : LowerChar(term[k]) = LowerChar(text[i + k])

occurs_in_post(term, p) ==
    occurs_in(term, p.title) \/ occurs_in(term, p.content)
        \/ occurs_in(term, p.excerpt)

\* C15: searched with a term alone, /api/posts counts and /api/search returns
\* exactly the Posts in whose title, content or excerpt the term occurs,
\* case ignored; with no such Post the result is empty and the total 0.
C15_SearchIsSubstring ==
    /\ (/\ call.fn = "api_get_posts"
        /\ call.arg.category_id = {} /\ call.arg.tag = NoneText
        /\ call.arg.search # <<>>) =>
            LET hits == {p \in post_rows : occurs_in_post(call.arg.search, p)}
            IN  /\ call.ret.total = Cardinality(hits)
                /\ \A i \in 1..Len(call.ret.posts) :
                        \E p \in hits : p.id = call.ret.posts[i]
    /\ (call.fn = "api_search" /\ call.ret.post_queries > 0) =>
            call.ret.results =
                {p.id : p \in {q \in post_rows :
                    occurs_in_post(search_term(call.arg.search), q)}}

\* C16: /api/posts returns exactly the Posts that satisfy every filter that
\* was passed, each once: a category id, whatever integer it is, keeps the
\* Posts of that category only, a tag name the Posts that carry a Tag of
\* exactly that name.
C16_FiltersCombine ==
    call.fn = "api_get_posts" =>
        LET a == call.arg
            wanted == {p \in post_rows :
                /\ a.category_id # {} => p.category_id \in a.category_id
                /\ a.tag # NoneText => tag_filter(p, a.tag)
                /\ a.search # <<>> => search_filter(p, a.search, a.dialect)}
        IN  /\ call.ret.total = Cardinality(wanted)
            /\ \A i \in 1..Len(call.ret.posts) :
                    \E p \in wanted : p.id = call.ret.posts[i]
            /\ \A i, j \in 1..Len(call.ret.posts) :
                    i # j => call.ret.posts[i] # call.ret.posts[j]

\* the Posts that match the filters of a and were created after post id
newer_than(a, id) ==
    {p \in filtered_posts(a) :
        \E q \in post_rows : q.id = id /\ p.date_created > q.date_created}

\* C17: /api/posts never fails on a page number of 1 or more. total is the
\* number of matching Posts and pages the least count of pages of per_page
\* that holds them; a page after the last is empty, a page in range holds
\* the Posts at its positions of the order, per_page of them but for the
\* last page.
C17_Pagination ==
    call.fn = "api_get_posts" =>
        LET a == call.arg
            ret == call.ret
            n == Cardinality(filtered_posts(a))
        IN  /\ ret.status = 200
            /\ ret.total = n
            /\ ret.pages * a.per_page >= n
            /\ ret.pages >= 0
            /\ ret.pages > 0 => (ret.pages - 1) * a.per_page < n
            /\ a.page > ret.pages => ret.posts = <<>>
            /\ a.page < ret.pages => Len(ret.posts) = a.per_page
            /\ a.page = ret.pages =>
                    Len(ret.posts) = n - (ret.pages - 1) * a.per_page
            /\ \A i \in 1..Len(ret.posts) :
                /\ \E p \in filtered_posts(a) : p.id = ret.posts[i]
                /\ Cardinality(newer_than(a, ret.posts[i])) =
                        (a.page - 1) * a.per_page + i - 1

\* a page after the last page of a result that is not empty
C17_Witness ==
    /\ call.fn = "api_get_posts"
    /\ call.ret.pages >= 2
    /\ call.arg.page > call.ret.pages
    /\ call.ret.posts = <<>>
    /\ call.ret.total >= 3

\* the items of pages 1..pages of the query of a, one after the other
RECURSIVE pages_concatenated(_, _)
pages_concatenated(a, pages) ==
    IF pages = 0 THEN <<>>
    ELSE pages_concatenated(a, pages - 1) \o
         paginate(order_by_date_created_desc(filtered_posts(a)),
                  pages, a.per_page).items

\* C18: the items of /api/posts, read page after page from the first to the
\* last, never go from an older Post to a newer one, and the page that was
\* asked for is its part of that sequence.
C18_NewestFirst ==
    call.fn = "api_get_posts" =>
        LET a == call.arg
            all == pages_concatenated(a, call.ret.pages)
        IN  /\ \A i \in 1..Len(all) - 1 :
                    all[i].date_created >= all[i + 1].date_created
            /\ Len(all) = call.ret.total
            /\ \A i \in 1..Len(call.ret.posts) :
                    all[(a.page - 1) * a.per_page + i].id = call.ret.posts[i]

\* three Posts over two pages, the first page asked for
C18_Witness ==
    /\ call.fn = "api_get_posts"
    /\ call.ret.total = 3 /\ call.ret.pages = 2
    /\ Len(call.ret.posts) = 2
    /\ posts[call.ret.posts[1]].date_created
            > posts[call.ret.posts[2]].date_created

\* C19: /api/search with no term, or with a term of fewer than 3 characters
\* once trimmed, answers with an empty list and has issued no query.
C19_ShortTermNoQuery ==
    (/\ call.fn = "api_search"
     /\ \/ call.arg.search = NoneText
        \/ Len(Strip(call.arg.search, {" ", "\t", "\n"})) < 3) =>
        /\ call.ret.status = 200
        /\ call.ret.results = {}
        /\ call.ret.post_queries = 0

\* a term of 2 characters between blanks that occurs in a stored Post
C19_Witness ==
    /\ call.fn = "api_search"
    /\ call.arg.search = <<" ","a","b"," ">>
    /\ \E p \in post_rows : occurs_in(<<"a","b">>, p.content)
    /\ call.ret.results = {}

\* every Post has its author and every Comment its author and its Post
references_resolve ==
    /\ \A p \in post_rows : \E u \in users : u.id = p.author_id
    /\ \A c \in comments :
        /\ \E u \in users : u.id = c.author_id
        /\ \E p \in post_rows : p.id = c.post_id

\* C20: when a User is deleted, every Post and Comment they wrote is gone;
\* when a Post is deleted, with its author or alone, every Comment on it is
\* gone, those of other Users too. After the deletion every Post and Comment
\* that is left refers to a User and a Post that exist, and the page of a
\* deleted Post is not found.
C20_CascadeDelete ==
    [][/\ (call' # call /\ call'.fn = "delete_user") =>
            /\ \A u \in users' : u.id # call'.arg
            /\ \A p \in post_rows' : p.author_id # call'.arg
            /\ \A c \in comments' : c.author_id # call'.arg
            /\ \A p \in post_rows :
                    p.author_id = call'.arg =>
                        /\ p \notin post_rows'
                        /\ get_or_404(p.id)' = 404
                        /\ \A c \in comments' : c.post_id # p.id
            /\ references_resolve => references_resolve'
       /\ (call' # call /\ call'.fn = "delete_post") =>
            /\ \A p \in post_rows :
                    p.id = call'.arg => get_or_404(p.id)' = 404
            /\ \E p \in post_rows : p.id = call'.arg
            /\ \A c \in comments' : c.post_id # call'.arg
            /\ references_resolve => references_resolve'
       /\ (/\ call.fn \in {"delete_user", "delete_post"}
           /\ call'.fn = "post_detail"
           /\ call'.arg \in call.ret.posts) =>
                call'.ret.status = 404]_vars

\* a User was deleted who had written a Post on which another User had
\* commented, and a Comment on a Post of another User
C20_Witness ==
    /\ call.fn = "delete_user"
    /\ call.ret.posts # {}
    /\ \E c \in call.ret.comments :
            c.author_id # call.arg /\ c.post_id \in call.ret.posts
    /\ \E c \in call.ret.comments :
            c.author_id = call.arg /\ c.post_id \notin call.ret.posts
    /\ posts # <<>> /\ users # {}

\* C21: in every state each stored Post has the id of exactly one stored
\* Category as its category_id: create_post stores no Post whose category is
\* missing or is no Category, and no step removes a Category that a Post
\* references, removes a stored Post or changes the Category of one.
C21_PostHasCategory ==
    [][ /\ \A p \in post_rows' :
            Cardinality({c \in categories' : c.id = p.category_id}) = 1
        /\ \A c \in categories :
            (\E p \in post_rows : p.category_id = c.id) => c \in categories'
        /\ Len(posts') >= Len(posts)
        /\ \A i \in 1..Len(posts) : posts'[i] = posts[i] ]_vars

\* Posts of two Categories are stored, a Category no Post references was
\* deleted, and the delete of a Category that Posts reference was refused
C21_Witness ==
    /\ call.fn = "delete_category"
    /\ call.ret.status = 500
    /\ \E p \in post_rows : p.category_id = call.arg
    /\ \E p \in post_rows : p.category_id # call.arg
    /\ Cardinality(categories) < Cardinality(SampleCategories)

\* C22 as stated: api_add_comment on a post id that is no stored Post answers
\* 404, api_add_comment with empty or blank content answers with an error,
\* and in both cases the stored state is unchanged.
C22_MissingPostIs404 ==
    [][ call'.fn = "api_add_comment" /\ call' # call =>
            LET data == call'.arg
            IN  /\ get_or_404(data.post_id) = 404 =>
                    /\ call'.ret.status = 404
                    /\ comments' = comments /\ posts' = posts
                /\ Strip(data.content, Whitespace) = <<>> =>
                    /\ call'.ret.status >= 400
                    /\ comments' = comments /\ posts' = posts ]_vars

\* C22 amended: the content is checked first.  Empty or blank content answers
\* 400 whether or not the Post exists; content that is not blank on a post id
\* that is no stored Post answers 404; in both cases every table is left as
\* it was.
C22_CommentRejected ==
    [][ call'.fn = "api_add_comment" /\ call' # call =>
            LET data == call'.arg
                blank == Strip(data.content, Whitespace) = <<>>
                stored == <<users, categories, tags, post_tags, posts,
                            comments>>
            IN  /\ blank => call'.ret.status = 400 /\ stored' = stored
                /\ ~blank /\ get_or_404(data.post_id) = 404 =>
                        call'.ret.status = 404 /\ stored' = stored ]_vars

\* a Post and a Comment are stored, and a request with content that is not
\* blank for a post id that is no Post was answered 404
C22_Witness ==
    /\ call.fn = "api_add_comment"
    /\ call.ret.status = 404
    /\ call.arg.post_id = MissingPost
    /\ posts # <<>> /\ comments # {}

\* C23: a create_post or register request whose commit fails leaves nothing
\* behind: in the step that ends a request in the 500 handler no Post, no
\* Tag, no pair of post_tags, no Comment and no User is added or changed.
C23_FailedCommitWritesNothing ==
    [][ /\ \A r \in Workers :
            req'[r].pc = "error" /\ req[r].pc # "error" =>
                /\ posts' = posts
                /\ tags' = tags
                /\ post_tags' = post_tags
                /\ comments' = comments
        /\ \A r \in Workers :
            reg'[r].pc = "error" /\ reg[r].pc # "error" =>
                users' = users ]_vars

\* a create_post request that would have made a new Tag failed at its commit,
\* and no Tag of that name is stored
C23_Witness ==
    \E r \in Workers :
        /\ req[r].pc = "error"
        /\ req[r].new_tags # <<>>
        /\ \A i \in 1..Len(req[r].new_tags) :
                \A t \in tags : t.name # req[r].new_tags[i]

\* C24: after any create_post requests, whatever their tag lists, no two
\* Tags have one name; a request that commits links its Post to the Tag that
\* was already stored for each name of its list that had one, and to exactly
\* one Tag for each name; and no request whose list holds a name twice
\* commits, so no pair (post, tag) is written twice.
C24_TagsUnique ==
    [][ /\ \A t1, t2 \in tags' : t1.name = t2.name => t1 = t2
        /\ \A r \in Workers :
            req'[r].pc = "done" /\ req[r].pc = "tags" =>
                LET names == req[r].post_tag_names
                    id == req'[r].post_id
                IN  /\ \A i, j \in 1..Len(names) : names[i] = names[j] => i = j
                    /\ \A i \in 1..Len(names) :
                        /\ \A t \in tags : t.name = names[i] =>
                                t \in tags' /\ <<id, t.id>> \in post_tags'
                        /\ \E t \in tags' : /\ t.name = names[i]
                                            /\ <<id, t.id>> \in post_tags'
                    /\ Cardinality({pt \in post_tags' : pt[1] = id}) =
                       Cardinality({names[i] : i \in 1..Len(names)}) ]_vars

\* a Tag that a request created is linked to two Posts, and a request whose
\* list held a name twice ended in the 500 handler
C24_Witness ==
    /\ \E t \in tags \ SampleTags :
            Cardinality({pt \in post_tags : pt[2] = t.id}) >= 2
    /\ \E r \in Workers :
            /\ req[r].pc = "error"
            /\ \E i, j \in 1..Len(req[r].post_tag_names) :
                    i # j /\ req[r].post_tag_names[i] = req[r].post_tag_names[j]

\* C25: in every state, every Comment that has a parent Comment is on the
\* same Post as that parent.
C25_ReplyOnParentsPost ==
    \A c \in comments :
        c.parent_id # NoneId =>
            \E p \in comments : p.id = c.parent_id /\ p.post_id = c.post_id

\* C26: once a Post is stored, no operation changes its slug, its excerpt or
\* its read_time: every step leaves these three columns of every stored Post
\* as they were.
C26_DerivedFieldsStay ==
    [][ \A p \in post_rows :
            \A q \in post_rows' :
                q.id = p.id =>
                    /\ q.slug = p.slug
                    /\ q.excerpt = p.excerpt
                    /\ q.read_time = p.read_time ]_vars

\* a Post whose excerpt was passed in, not derived, is followed by a later
\* Post, a registration, a Comment and a read
C26_Witness ==
    /\ \E p, q \in post_rows :
            /\ p.id < q.id
            /\ p.excerpt # generate_excerpt(p.content)
    /\ Cardinality(users) > Cardinality(SampleUsers)
    /\ comments # {}
    /\ call.fn = "api_get_posts"

\* C27: after any create_post requests with titles the form accepts, every
\* stored Post has a slug that is not empty and neither starts nor ends with
\* "-".
C27_SlugNotEmpty ==
    \A p \in post_rows :
        /\ p.slug # NoneText
        /\ p.slug # <<>>
        /\ p.slug[1] # "-"
        /\ p.slug[Len(p.slug)] # "-"

\* C28: api_add_comment on a Post whose allow_comments is False stores no
\* Comment: the step leaves the Comments as they were.
C28_NoCommentWhenClosed ==
    [][ call'.fn = "api_add_comment" /\ call' # call =>
            \A p \in post_rows :
                p.id = call'.arg.post_id /\ ~p.allow_comments =>
                    comments' = comments ]_vars

====
